---- MODULE Spec2Model ----
(***************************************************************************)
(* Model of framework.py: IndentManager, SourceBuilder and PySourceBuilder *)
(* (the indentation-aware source writer) together with the caller's open   *)
(* indentation scopes and Python's exception propagation through them.     *)
(* Text is a sequence of one-character strings.                            *)
(*                                                                         *)
(* Five specifications share the operations:                               *)
(*   Spec      every operation, short texts, a small buffer;               *)
(*   SpecText  the writing operations with the texts of the end-to-end     *)
(*             scenario and a buffer large enough for them;                *)
(*   SpecDoc   docstring() applied to every short document;                *)
(*   SpecErr   every operation, with the history of the errors raised;     *)
(*   SpecGen   the code generation driver, for every set of answers.       *)
(***************************************************************************)
EXTENDS Integers, Sequences, FiniteSets, TLC

\* ------------------------------------------------------------------ bounds
\* Largest indentation level / number of open scopes the caller builds up.
MaxDepth == 2
\* Largest buffer length, in characters, under Spec.
MaxBuf == 5
\* Largest buffer length, in characters, under SpecText.
MaxText == 22
\* Largest number of blank lines asked of block().
MaxBlank == 1
\* Longest document handed to docstring() under SpecDoc.
MaxDocLen == 5
\* Largest width handed to docstring() besides the default one.
MaxWidth == 7
\* Largest buffer length under SpecGen; the driver writes less than this.
MaxSource == 1000

\* ------------------------------------------------------------ text helpers
NL == "\n"
SP == " "

\* s repeated n times (Python's str * int; n <= 0 gives the empty string)
RECURSIVE Rep(_, _)
Rep(s, n) == IF n <= 0 THEN <<>> ELSE s \o Rep(s, n - 1)

\* INDENT = ' ' * 4
INDENT == Rep(<<SP>>, 4)
\* TRIPLE_QUOTES = '"' * 3
TRIPLE_QUOTES == Rep(<<"\"">>, 3)
DOCSTRING_WIDTH == 72

SeqsUpTo(S, n) == UNION {[1..k -> S] : k \in 0..n}

\* Texts the caller passes to write/writeln and headers it passes to block.
Texts == {<<>>, <<"a">>}
Headers == {<<"h">>}
Return1 == <<"r", "e", "t", "u", "r", "n", " ", "1">>
Define == <<"d", "e", "f", "i", "n", "e", ":">>
HelloWorld == <<"H", "e", "l", "l", "o", " ", "w", "o", "r", "l", "d">>

\* -------------------------------------------------- IndentManager (pure part)
\* IndentManager.__str__: indent_with * level
IndentStr(iw, lv) == Rep(iw, lv)

\* IndentManager.indent: level + 1
indent(lv) == lv + 1

\* The name DedentException is bound nowhere in the module, so evaluating
\* `raise DedentException(...)` raises NameError.
DedentError == "NameError"

\* IndentManager.dedent: [ok, level, exc]
dedent_unguarded(lv) == [ok |-> TRUE, level |-> lv - 1, exc |-> "none"]
dedent(lv) ==
    IF lv = 0
    THEN [ok |-> FALSE, level |-> lv, exc |-> DedentError]
    ELSE [ok |-> TRUE, level |-> lv - 1, exc |-> "none"]

\* IndentManager.reset
reset_one_level(lv) == IF lv > 0 THEN lv - 1 ELSE 0
reset(lv) == 0

\* IndentManager.__exit__(*exc_info): dedent whatever the exit path; returns
\* None, so an exception in flight keeps propagating unless dedent raises,
\* in which case the new exception replaces it.
exit_skips_on_error(lv, e) ==
    IF e # "none" THEN [ok |-> TRUE, level |-> lv, exc |-> e]
    ELSE [ok |-> dedent(lv).ok, level |-> dedent(lv).level, exc |-> dedent(lv).exc]
exit_guarded(lv, e) ==
    IF lv = 0 THEN [ok |-> TRUE, level |-> lv, exc |-> e]
    ELSE [ok |-> TRUE, level |-> lv - 1, exc |-> e]
exit_scope(lv, e) ==
    LET r == dedent(lv)
    IN  [ok |-> r.ok, level |-> r.level, exc |-> IF r.ok THEN e ELSE r.exc]

\* -------------------------------------------------- SourceBuilder (pure part)
\* StringIO.write and StringIO.getvalue raise ValueError on a closed buffer.
closed_error(c) == IF c THEN "ValueError" ELSE "none"

\* SourceBuilder.write
write_from_start(o, iw, lv, code) ==
    LET t == IndentStr(iw, lv) \o code
    IN  t \o SubSeq(o, Len(t) + 1, Len(o))
write(o, iw, lv, code) == o \o IndentStr(iw, lv) \o code

\* SourceBuilder.writeln
writeln_indents_blank(o, iw, lv, code) == write(o, iw, lv, code) \o <<NL>>
writeln(o, iw, lv, code) ==
    (IF code # <<>> THEN write(o, iw, lv, code) ELSE o) \o <<NL>>

\* SourceBuilder.end: [ret, out, level]
end_consuming(o, lv) == [ret |-> o, out |-> <<>>, level |-> reset(lv)]
end(o, lv) == [ret |-> o, out |-> o, level |-> reset(lv)]

\* SourceBuilder.truncate: [out, closed, level]
truncate_keeps_level(o, c, lv) == [out |-> <<>>, closed |-> FALSE, level |-> lv]
truncate_closes_only(o, c, lv) == [out |-> <<>>, closed |-> TRUE, level |-> reset(lv)]
\* (the old buffer is closed if it is still open and dropped; the new
\* StringIO is empty and open)
truncate(o, c, lv) == [out |-> <<>>, closed |-> FALSE, level |-> reset(lv)]

\* SourceBuilder.close
close(o, c, lv) == truncate(o, c, lv)

\* PySourceBuilder.block up to its yield: lines_before blank lines, the
\* header, then the indent scope is entered.
RECURSIVE blanks(_, _, _, _)
blanks(o, iw, lv, n) ==
    IF n <= 0 THEN o ELSE blanks(writeln(o, iw, lv, <<>>), iw, lv, n - 1)

block_indents_first(o, iw, lv, code, n) ==
    [out |-> writeln(blanks(o, iw, indent(lv), n), iw, indent(lv), code),
     level |-> indent(lv)]
block_indents_twice(o, iw, lv, code, n) ==
    [out |-> writeln(blanks(o, iw, lv, n), iw, lv, code),
     level |-> indent(indent(lv))]
block(o, iw, lv, code, n) ==
    [out |-> writeln(blanks(o, iw, lv, n), iw, lv, code),
     level |-> indent(lv)]

\* ------------------------------------------------ textwrap and str methods
IsSpace(c) == c \in {SP, NL}
IsBlank(s) == \A i \in 1..Len(s) : IsSpace(s[i])
Last(s) == s[Len(s)]
Front(s) == SubSeq(s, 1, Len(s) - 1)

RECURSIVE Flatten(_)
Flatten(ss) == IF ss = <<>> THEN <<>> ELSE Head(ss) \o Flatten(Tail(ss))

\* str.split('\n'): the fields between newlines, k + 1 of them for k newlines
RECURSIVE Fields(_, _, _)
Fields(s, cur, acc) ==
    IF s = <<>> THEN Append(acc, cur)
    ELSE IF Head(s) = NL THEN Fields(Tail(s), <<>>, Append(acc, cur))
    ELSE Fields(Tail(s), Append(cur, Head(s)), acc)

\* '\n'.join(lines)
RECURSIVE JoinLines(_)
JoinLines(ls) ==
    IF ls = <<>> THEN <<>>
    ELSE IF Len(ls) = 1 THEN ls[1]
    ELSE ls[1] \o <<NL>> \o JoinLines(Tail(ls))

\* str.splitlines(): as Fields, without the empty field after a final newline
\* and with no field at all for the empty string
splitlines(s) ==
    IF s = <<>> THEN <<>>
    ELSE IF Last(s) = NL THEN Front(Fields(s, <<>>, <<>>))
    ELSE Fields(s, <<>>, <<>>)

\* str.strip(): leading and trailing whitespace removed
RECURSIVE lstrip(_)
lstrip(s) == IF s # <<>> /\ IsSpace(Head(s)) THEN lstrip(Tail(s)) ELSE s
RECURSIVE rstrip(_)
rstrip(s) == IF s # <<>> /\ IsSpace(Last(s)) THEN rstrip(Front(s)) ELSE s
strip(s) == rstrip(lstrip(s))

\* number of leading spaces of a line
RECURSIVE Lead(_)
Lead(l) == IF l # <<>> /\ Head(l) = SP THEN 1 + Lead(Tail(l)) ELSE 0

Min(S) == CHOOSE x \in S : \A y \in S : x <= y

\* textwrap.dedent: whitespace-only lines become empty, then the leading
\* whitespace common to the remaining lines is removed from each of them
textwrap_dedent(s) ==
    LET raw == Fields(s, <<>>, <<>>)
        ls == [i \in 1..Len(raw) |-> IF IsBlank(raw[i]) THEN <<>> ELSE raw[i]]
        ind == {Lead(ls[i]) : i \in {j \in 1..Len(ls) : ls[j] # <<>>}}
        margin == IF ind = {} THEN 0 ELSE Min(ind)
    IN  JoinLines([i \in 1..Len(ls) |->
                     IF ls[i] = <<>> THEN <<>>
                     ELSE SubSeq(ls[i], margin + 1, Len(ls[i]))])

\* TextWrapper._split on text without hyphens or dashes: maximal runs of
\* whitespace and of other characters
RECURSIVE Chunks(_, _, _)
Chunks(s, cur, acc) ==
    IF s = <<>> THEN (IF cur = <<>> THEN acc ELSE Append(acc, cur))
    ELSE IF cur = <<>> \/ IsSpace(Head(s)) = IsSpace(Last(cur))
         THEN Chunks(Tail(s), Append(cur, Head(s)), acc)
         ELSE Chunks(Tail(s), <<Head(s)>>, Append(acc, cur))

\* The inner loop of TextWrapper._wrap_chunks: take chunks while they fit.
RECURSIVE Fill(_, _, _, _)
Fill(chunks, cur, curlen, width) ==
    IF chunks # <<>> /\ curlen + Len(Head(chunks)) <= width
    THEN Fill(Tail(chunks), Append(cur, Head(chunks)),
              curlen + Len(Head(chunks)), width)
    ELSE [cur |-> cur, len |-> curlen, rest |-> chunks]

\* TextWrapper._handle_long_word with break_long_words = True
LongWord(f, width) ==
    IF f.rest # <<>> /\ Len(Head(f.rest)) > width
    THEN LET left == IF width < 1 THEN 1 ELSE width - f.len
             w == Head(f.rest)
         IN  [cur |-> Append(f.cur, SubSeq(w, 1, left)),
              rest |-> <<SubSeq(w, left + 1, Len(w))>> \o Tail(f.rest)]
    ELSE [cur |-> f.cur, rest |-> f.rest]

\* TextWrapper._wrap_chunks, width > 0, drop_whitespace = True
RECURSIVE WrapChunks(_, _, _)
WrapChunks(chunks, lines, width) ==
    IF chunks = <<>> THEN lines
    ELSE LET c1 == IF IsBlank(Head(chunks)) /\ lines # <<>>
                   THEN Tail(chunks) ELSE chunks
             g == LongWord(Fill(c1, <<>>, 0, width), width)
             cur == IF g.cur # <<>> /\ IsBlank(Last(g.cur))
                    THEN Front(g.cur) ELSE g.cur
         IN  WrapChunks(g.rest,
                        IF cur # <<>> THEN Append(lines, Flatten(cur)) ELSE lines,
                        width)

\* textwrap.wrap(text, width) for width > 0; for width <= 0 it raises
\* ValueError, which docstring lets through
wrap_keeps_words(text, width) ==
    LET c == Chunks(text, <<>>, <<>>)
    IN  WrapChunks(c, <<>>, IF \E i \in 1..Len(c) : Len(c[i]) > width
                            THEN Len(text) ELSE width)
textwrap_wrap(text, width) == WrapChunks(Chunks(text, <<>>, <<>>), <<>>, width)

\* ------------------------------------------------ PySourceBuilder.docstring
RECURSIVE writelns(_, _, _, _)
writelns(o, iw, lv, ls) ==
    IF ls = <<>> THEN o ELSE writelns(writeln(o, iw, lv, Head(ls)), iw, lv, Tail(ls))

\* The loop over the lines of the document: [out, exc]
RECURSIVE doc_lines(_, _, _, _, _)
doc_lines(o, iw, lv, lines, max_width) ==
    IF lines = <<>> THEN [out |-> o, exc |-> "none"]
    ELSE LET o1 == IF strip(Head(lines)) = <<>> THEN writeln(o, iw, lv, <<>>) ELSE o
         IN  IF max_width <= 0
             THEN [out |-> o1, exc |-> "ValueError"]
             ELSE doc_lines(writelns(o1, iw, lv, textwrap_wrap(Head(lines), max_width)),
                            iw, lv, Tail(lines), max_width)

\* the test that selects the one-line form
one_line_le(lines, doc, max_width, delimiter) ==
    Len(lines) = 1 /\ Len(doc) <= max_width - Len(delimiter) * 2
one_line(lines, doc, max_width, delimiter) ==
    Len(lines) = 1 /\ Len(doc) < max_width - Len(delimiter) * 2

\* PySourceBuilder.docstring: [out, exc]
docstring(o, iw, lv, raw, delimiter, width) ==
    LET doc == strip(textwrap_dedent(raw))
        max_width == width - Len(IndentStr(iw, lv))
        lines == splitlines(doc)
    IN  IF one_line(lines, doc, max_width, delimiter)
        THEN [out |-> writeln(o, iw, lv, delimiter \o doc \o delimiter),
              exc |-> "none"]
        ELSE LET r == doc_lines(writeln(o, iw, lv, delimiter), iw, lv, lines, max_width)
             IN  IF r.exc # "none" THEN r
                 ELSE [out |-> writeln(writeln(r.out, iw, lv, <<>>), iw, lv, delimiter),
                       exc |-> "none"]

\* ---------------------------------------------------------------- state
VARIABLES
    out,          \* SourceBuilder._out: the text written so far
    closed,       \* SourceBuilder._out.closed
    level,        \* IndentManager.level
    indent_with,  \* IndentManager.indent_with
    stack,        \* the caller's open scopes, innermost last
    exc,          \* the exception in flight, "none" when there is none
    last,         \* the call that produced this state and what it returned
    ended,        \* history: <<what the latest end() since construction or
                  \*   truncate returned>>, << >> when there was none
    since,        \* history: the text written since then
    phase,        \* history: progress through the end-to-end scenario
                  \*   (SpecText), the errors raised so far (SpecErr), the
                  \*   number of end() calls (SpecGen)
    factors,      \* the driver's list of answers
    pc            \* the driver's position in the generation pass

vars == <<out, closed, level, indent_with, stack, exc, last, ended, since, phase,
          factors, pc>>
gen == <<factors, pc>>
hist == <<ended, since, phase, factors, pc>>

NoFrame == [kind |-> "-", base |-> 0, clean |-> FALSE]
Call(op, text, n, frame, ret, delim) ==
    [op |-> op, text |-> text, n |-> n, frame |-> frame, ret |-> ret,
     delim |-> delim]
Did(op) == Call(op, <<>>, 0, NoFrame, <<>>, <<>>)

Push(kind) == Append(stack, [kind |-> kind, base |-> level, clean |-> TRUE])
Top == stack[Len(stack)]
Pop == SubSeq(stack, 1, Len(stack) - 1)
\* A call that is not part of a text-only body was made inside these scopes.
Dirty(s) == [i \in 1..Len(s) |-> [kind |-> s[i].kind, base |-> 0, clean |-> FALSE]]

\* the wizard has not run
NoAnswers == <<>>

\* SourceBuilder.__init__ / IndentManager.__init__
Init ==
    /\ out = <<>>
    /\ closed = FALSE
    /\ level = 0
    /\ indent_with = INDENT
    /\ stack = <<>>
    /\ exc = "none"
    /\ last = Did("init")
    /\ ended = <<>>
    /\ since = <<>>
    /\ phase = 0
    /\ factors = NoAnswers
    /\ pc = 0

Idle == exc = "none"

\* ------------------------------------------------------------- operations
\* Each operation is written once, with the texts it may be given and the
\* buffer length it may reach as parameters. An operation that writes to the
\* buffer or reads it fails with closed_error when the buffer is closed.

\* sb.indent() / sb.indent.indent(): a manual scope entry
IndentOp ==
    /\ Idle /\ level < MaxDepth /\ Len(stack) < MaxDepth
    /\ level' = indent(level)
    /\ stack' = Push("manual")
    /\ last' = Did("indent")
    /\ UNCHANGED <<out, closed, indent_with, exc>>

\* sb.dedent() / sb.indent.dedent(): the matching exit of the innermost
\* manual scope when there is one, a stray dedent otherwise
DedentOp ==
    /\ Idle
    /\ LET r == dedent(level)
           matching == Len(stack) > 0 /\ Top.kind = "manual"
       IN  /\ level' = r.level
           /\ exc' = r.exc
           /\ stack' = IF ~r.ok THEN Dirty(stack)
                       ELSE IF matching THEN Pop ELSE Dirty(stack)
           /\ last' = Call("dedent", <<>>, 0,
                           IF matching THEN Top ELSE NoFrame, <<>>, <<>>)
    /\ UNCHANGED <<out, closed, indent_with>>

\* sb.indent.reset()
ResetOp ==
    /\ Idle
    /\ level' = reset(level)
    /\ stack' = Dirty(stack)
    /\ last' = Did("reset")
    /\ UNCHANGED <<out, closed, indent_with, exc>>

\* with sb.indent:  (IndentManager.__enter__)
EnterScope ==
    /\ Idle
    /\ level' = indent(level)
    /\ stack' = Push("with")
    /\ last' = Did("enter")
    /\ UNCHANGED <<out, closed, indent_with, exc>>
\* ... by a caller that opens at most MaxDepth scopes
EnterOp ==
    /\ level < MaxDepth /\ Len(stack) < MaxDepth
    /\ EnterScope

\* with sb.block(code, lines_before):  the generator runs up to its yield,
\* where the scope of its `with self.indent` is open
BlockOp(H, cap) ==
    /\ Idle /\ level < MaxDepth /\ Len(stack) < MaxDepth
    /\ \E code \in H, n \in 0..MaxBlank :
         LET r == block(out, indent_with, level, code, n)
         IN  /\ Len(r.out) <= cap
             /\ out' = IF closed THEN out ELSE r.out
             /\ level' = IF closed THEN level ELSE r.level
             /\ last' = Call("block", code, n, NoFrame, <<>>, <<>>)
    /\ stack' = IF closed THEN Dirty(stack) ELSE Push("with")
    /\ exc' = closed_error(closed)
    /\ UNCHANGED <<closed, indent_with>>

\* The body of a `with sb.indent` or `with sb.block(...)` statement completes:
\* IndentManager.__exit__(None, None, None)
ExitOp ==
    /\ Idle /\ Len(stack) > 0 /\ Top.kind = "with"
    /\ LET r == exit_scope(level, exc)
       IN  /\ level' = r.level
           /\ exc' = r.exc
           /\ stack' = IF r.ok THEN Pop ELSE Dirty(Pop)
    /\ last' = Call("exit", <<>>, 0, Top, <<>>, <<>>)
    /\ UNCHANGED <<out, closed, indent_with>>

\* sb.write(code)
WriteOp(T, cap) ==
    /\ Idle
    /\ \E code \in T :
         /\ Len(write(out, indent_with, level, code)) <= cap
         /\ out' = IF closed THEN out ELSE write(out, indent_with, level, code)
         /\ last' = Call("write", code, 0, NoFrame, <<>>, <<>>)
    /\ exc' = closed_error(closed)
    /\ UNCHANGED <<closed, level, indent_with, stack>>

\* sb.writeln(code) and sb.writeln()
WritelnOp(T, cap) ==
    /\ Idle
    /\ \E code \in T :
         /\ Len(writeln(out, indent_with, level, code)) <= cap
         /\ out' = IF closed THEN out ELSE writeln(out, indent_with, level, code)
         /\ last' = Call("writeln", code, 0, NoFrame, <<>>, <<>>)
    /\ exc' = closed_error(closed)
    /\ UNCHANGED <<closed, level, indent_with, stack>>

\* sb.docstring(doc, delimiter, width); the ValueError of textwrap.wrap
\* leaves what was written before it in the buffer
DocstringOp(D, Q, W, cap) ==
    /\ Idle
    /\ \E doc \in D, delimiter \in Q, width \in W :
         LET r == docstring(out, indent_with, level, doc, delimiter, width)
         IN  /\ Len(r.out) <= cap
             /\ out' = IF closed THEN out ELSE r.out
             /\ exc' = IF closed THEN closed_error(closed) ELSE r.exc
             /\ last' = Call("docstring", doc, width, NoFrame, <<>>, delimiter)
    /\ UNCHANGED <<closed, level, indent_with, stack>>

\* sb.end(); the call is recorded with what was written since the end()
\* before it. The level is reset before the buffer is read.
EndOp ==
    /\ Idle
    /\ LET r == end(out, level)
       IN  /\ out' = r.out
           /\ level' = r.level
           /\ last' = Call("end", since, 0, NoFrame,
                           IF closed THEN <<>> ELSE r.ret, <<>>)
    /\ stack' = Dirty(stack)
    /\ exc' = closed_error(closed)
    /\ UNCHANGED <<closed, indent_with>>

\* sb.truncate()
TruncateOp ==
    /\ Idle
    /\ LET r == truncate(out, closed, level)
       IN  /\ out' = r.out
           /\ closed' = r.closed
           /\ level' = r.level
    /\ stack' = Dirty(stack)
    /\ last' = Did("truncate")
    /\ UNCHANGED <<indent_with, exc>>

\* sb.close()
CloseOp ==
    /\ Idle
    /\ LET r == close(out, closed, level)
       IN  /\ out' = r.out
           /\ closed' = r.closed
           /\ level' = r.level
    /\ stack' = Dirty(stack)
    /\ last' = Did("close")
    /\ UNCHANGED <<indent_with, exc>>

\* The caller's code inside a scope raises an error of its own.
RaiseOp ==
    /\ Idle /\ Len(stack) > 0
    /\ exc' = "BodyError"
    /\ last' = Did("raise")
    /\ UNCHANGED <<out, closed, level, indent_with, stack>>

\* The exception in flight leaves the innermost open scope. A with/block scope
\* runs IndentManager.__exit__(*exc_info); the dedent() that would close a
\* manual scope is ordinary caller code and is skipped.
UnwindOp ==
    /\ ~Idle /\ Len(stack) > 0
    /\ IF Top.kind = "manual"
       THEN /\ stack' = Dirty(Pop)
            /\ UNCHANGED <<level, exc>>
       ELSE LET r == exit_scope(level, exc)
            IN  /\ level' = r.level
                /\ exc' = r.exc
                /\ stack' = IF r.ok THEN Pop ELSE Dirty(Pop)
    /\ last' = Call("unwind", <<>>, 0, Top, <<>>, <<>>)
    /\ UNCHANGED <<out, closed, indent_with>>

\* The caller leaves the innermost manual scope without ever calling the
\* dedent() that would close it.
AbandonOp ==
    /\ Idle /\ Len(stack) > 0 /\ Top.kind = "manual"
    /\ stack' = Dirty(Pop)
    /\ last' = Did("abandon")
    /\ UNCHANGED <<out, closed, level, indent_with, exc>>

\* The exception has left every scope and reaches the driver.
CatchOp ==
    /\ ~Idle /\ Len(stack) = 0
    /\ exc' = "none"
    /\ last' = Did("catch")
    /\ UNCHANGED <<out, closed, level, indent_with, stack>>

\* ------------------------------------------------------------------- Spec
\* Every operation, on short texts.
Docs == {<<>>, <<"a">>}
Delims == {<<"#">>}
Widths == {0, DOCSTRING_WIDTH}

Indent == IndentOp /\ UNCHANGED hist
Dedent == DedentOp /\ UNCHANGED hist
Reset == ResetOp /\ UNCHANGED hist
Enter == EnterOp /\ UNCHANGED hist
BlockEnter == BlockOp(Headers, MaxBuf) /\ UNCHANGED hist
Exit == ExitOp /\ UNCHANGED hist
Write == WriteOp(Texts, MaxBuf) /\ UNCHANGED hist
Writeln == WritelnOp(Texts, MaxBuf) /\ UNCHANGED hist
Docstring == DocstringOp(Docs, Delims, Widths, MaxBuf) /\ UNCHANGED hist
End == EndOp /\ UNCHANGED hist
Truncate == TruncateOp /\ UNCHANGED hist
Close == CloseOp /\ UNCHANGED hist
Raise == RaiseOp /\ UNCHANGED hist
Unwind == UnwindOp /\ UNCHANGED hist
Abandon == AbandonOp /\ UNCHANGED hist
Catch == CatchOp /\ UNCHANGED hist

Next ==
    \/ Indent
    \/ Dedent
    \/ Reset
    \/ Enter
    \/ BlockEnter
    \/ Exit
    \/ Write
    \/ Writeln
    \/ Docstring
    \/ End
    \/ Truncate
    \/ Close
    \/ Raise
    \/ Unwind
    \/ Abandon
    \/ Catch

Spec == Init /\ [][Next]_vars

\* --------------------------------------------------------------- SpecText
\* The writing operations on the texts of the end-to-end scenario, with the
\* history of what end() returned and of what was written since.
TextsT == {<<>>, Return1}
HeadersT == {Define}

\* the text the call recorded in last' appended to the buffer
Appended == SubSeq(out', Len(out) + 1, Len(out'))

\* The scenario: on a fresh builder, block("define:", 1), writeln("return 1")
\* in its body, the end of the block, end().
Scenario ==
    << [op |-> "block", text |-> Define, n |-> 1],
       [op |-> "writeln", text |-> Return1, n |-> 0],
       [op |-> "exit", text |-> <<>>, n |-> 0],
       [op |-> "end", text |-> <<>>, n |-> 0] >>
NextPhase(c) ==
    IF phase \in 0..(Len(Scenario) - 1)
       /\ c.op = Scenario[phase + 1].op
       /\ (c.op \in {"block", "writeln"} => c.text = Scenario[phase + 1].text)
       /\ c.n = Scenario[phase + 1].n
    THEN phase + 1
    ELSE -1

Wrote == /\ since' = since \o Appended
         /\ phase' = NextPhase(last')
         /\ UNCHANGED <<ended, factors, pc>>
Moved == /\ phase' = NextPhase(last')
         /\ UNCHANGED <<ended, since, factors, pc>>

TEnter == EnterOp /\ Moved
TBlockEnter == BlockOp(HeadersT, MaxText) /\ Wrote
TExit == ExitOp /\ Moved
TWrite == WriteOp({Return1}, MaxText) /\ Wrote
TWriteln == WritelnOp(TextsT, MaxText) /\ Wrote
TEnd ==
    /\ EndOp
    /\ ended' = <<last'.ret>>
    /\ since' = <<>>
    /\ phase' = NextPhase(last')
    /\ UNCHANGED gen
TTruncate ==
    /\ TruncateOp
    /\ ended' = <<>>
    /\ since' = <<>>
    /\ phase' = NextPhase(last')
    /\ UNCHANGED gen
TUnwind == UnwindOp /\ Moved
TCatch == CatchOp /\ Moved

NextText ==
    \/ TEnter
    \/ TBlockEnter
    \/ TExit
    \/ TWrite
    \/ TWriteln
    \/ TEnd
    \/ TTruncate
    \/ TUnwind
    \/ TCatch

SpecText == Init /\ [][NextText]_vars

\* ---------------------------------------------------------------- SpecDoc
\* One docstring() call, at every level, on every short document.
DocsD == SeqsUpTo({"a", SP, NL}, MaxDocLen) \cup {HelloWorld}
DelimsD == {<<"#">>, Rep(<<"#">>, 3), TRIPLE_QUOTES}
WidthsD == (0..MaxWidth) \cup {DOCSTRING_WIDTH}

\* no call on these documents writes as much as this
MaxDocText == 1000

InitDoc ==
    /\ out \in {<<>>, <<"a", NL>>}
    /\ closed = FALSE
    /\ level \in 0..MaxDepth
    /\ indent_with = INDENT
    /\ stack = <<>>
    /\ exc = "none"
    /\ last = Did("init")
    /\ ended = <<>>
    /\ since = <<>>
    /\ phase = 0
    /\ factors = NoAnswers
    /\ pc = 0

DDocstring ==
    /\ last.op = "init"
    /\ DocstringOp(DocsD, DelimsD, WidthsD, Len(out) + MaxDocText)
    /\ since' = Appended
    /\ UNCHANGED <<ended, phase, factors, pc>>
DCatch == CatchOp /\ UNCHANGED hist

NextDoc ==
    \/ DDocstring
    \/ DCatch

SpecDoc == InitDoc /\ [][NextDoc]_vars

\* ---------------------------------------------------------------- SpecErr
\* Every operation of Spec and the rendering of the indent prefix, with the
\* history of the errors: phase is 0 until an error is raised, 1 once an error
\* was raised while the buffer held text, 2 once truncate() or close() was
\* called after that.

\* str(sb.indent): IndentManager.__str__
RenderOp ==
    /\ Idle
    /\ last' = Call("render", <<>>, 0, NoFrame, IndentStr(indent_with, level), <<>>)
    /\ UNCHANGED <<out, closed, level, indent_with, stack, exc>>

Tracked ==
    /\ phase' = IF exc' # "none" /\ out' # <<>> THEN 1
                ELSE IF last'.op \in {"truncate", "close"} /\ phase >= 1 THEN 2
                ELSE phase
    /\ UNCHANGED <<ended, since, factors, pc>>

EIndent == IndentOp /\ Tracked
EDedent == DedentOp /\ Tracked
EReset == ResetOp /\ Tracked
ERender == RenderOp /\ Tracked
EEnter == EnterOp /\ Tracked
EBlockEnter == BlockOp(Headers, MaxBuf) /\ Tracked
EExit == ExitOp /\ Tracked
EWrite == WriteOp(Texts, MaxBuf) /\ Tracked
EWriteln == WritelnOp(Texts, MaxBuf) /\ Tracked
EDocstring == DocstringOp(Docs, Delims, Widths, MaxBuf) /\ Tracked
EEnd == EndOp /\ Tracked
ETruncate == TruncateOp /\ Tracked
EClose == CloseOp /\ Tracked
ERaise == RaiseOp /\ Tracked
EUnwind == UnwindOp /\ Tracked
EAbandon == AbandonOp /\ Tracked
ECatch == CatchOp /\ Tracked

NextErr ==
    \/ EIndent
    \/ EDedent
    \/ EReset
    \/ ERender
    \/ EEnter
    \/ EBlockEnter
    \/ EExit
    \/ EWrite
    \/ EWriteln
    \/ EDocstring
    \/ EEnd
    \/ ETruncate
    \/ EClose
    \/ ERaise
    \/ EUnwind
    \/ EAbandon
    \/ ECatch

SpecErr == Init /\ [][NextErr]_vars

\* ---------------------------------------------------------------- SpecGen
\* The code generation driver. A string literal of the driver is kept whole,
\* as one element of the text; the indent prefix is made of single spaces as
\* everywhere else.

\* the choices of the five list questions, the two typed answers and the
\* confirmation
Alphas ==
    {"RSI", "EMA Cross", "MACD", "Historical Returns", "Pairs Trading", "None"}
Universes ==
    {"Large Cap Equities", "EMA Cross Universe", "Coarse Universe",
     "Coarse-Fine Universe", "Scheduled Universe", "Manual Selection", "None"}
Portfolios == {"Equal Weighting", "Mean-Variance", "Black Litterman", "None"}
Executions == {"Immediate", "VWAP", "Standard deviation", "None"}
Risks == {"Maximum Drawdown", "Sector Exposure", "None"}
Starts == {<<"2017, 1, 1">>}
Cashes == {<<"100000">>}
Builds == BOOLEAN

\* factors: the answers in the order of the questions; factors[i] of the
\* driver is f[i + 1] here
Answers ==
    {<<a, u, p, e, r, s, c, b>> :
        a \in Alphas, u \in Universes, p \in Portfolios, e \in Executions,
        r \in Risks, s \in Starts, c \in Cashes, b \in Builds}

klasses == << <<"DancingBlueOwl">> >>

\* the calls the driver makes on sb
W(text) == [op |-> "writeln", text |-> text]
ENTER == [op |-> "enter", text |-> <<>>]
EXIT == [op |-> "exit", text |-> <<>>]
END == [op |-> "end", text |-> <<>>]
\* an if statement without else
If(c, calls) == IF c THEN calls ELSE <<>>

ClassHeader(klass) == <<"class ">> \o klass \o <<"(QCAlgorithm):">>
InitializeHeader == <<"def Initialize(self):">>
OnDataHeader == <<"def OnData(self, data):">>
ScheduledArgs ==
    <<<<"self.DateRules.Every(DayOfWeek.Monday, DayOfWeek.Tuesday, DayOfWeek.Thursday),">>,
      <<"self.TimeRules.Every(timedelta(hours = 12)),">>,
      <<"self.SelectSymbols">>>>

Alpha(f) ==
    If(f[1] = "RSI", <<W(<<"self.AddAlpha(RsiAlphaModel(60, Resolution.Minute))">>)>>)
    \o If(f[1] = "EMA Cross", <<W(<<"self.AddAlpha(EmaCrossAlphaModel(50, 200, Resolution.Minute))">>)>>)
    \o If(f[1] = "MACD", <<W(<<"self.AddAlpha(MacdAlphaModel(12, 26, 9, MovingAverageType.Simple, Resolution.Daily))">>)>>)
    \o If(f[1] = "Historical Returns", <<W(<<"self.AddAlpha(HistoricalReturnsAlphaModel(14, Resolution.Daily))">>)>>)
    \o If(f[1] = "Pairs Trading", <<W(<<"self.AddAlpha(PearsonCorrelationPairsTradingAlphaModel(252, Resolution.Daily))">>)>>)

Execution(f) ==
    If(f[4] = "Immediate", <<W(<<"self.SetExecution(ImmediateExecutionModel())">>)>>)
    \o If(f[4] = "VWAP", <<W(<<"self.SetExecution(VolumeWeightedAveragePriceExecutionModel())">>)>>)
    \o If(f[4] = "Standard deviation", <<W(<<"self.SetExecution(StandardDeviationExecutionModel(60, 2, Resolution.Minute))">>)>>)

Portfolio(f) ==
    If(f[3] = "Equal Weighting", <<W(<<"self.SetPortfolioConstruction(EqualWeightingPortfolioConstructionModel())">>)>>)
    \o If(f[3] = "Mean-Variance", <<W(<<"self.SetPortfolioConstruction(MeanVarianceOptimizationPortfolioConstructionModel())">>)>>)
    \o If(f[3] = "Black Litterman", <<W(<<"self.SetPortfolioConstruction(BlackLittermanOptimizationPortfolioConstructionModel())">>)>>)

Risk(f) ==
    If(f[5] = "Maximum Drawdown", <<W(<<"self.SetRiskManagement(MaximumDrawdownPercentPerSecurity(0.01))">>)>>)
    \o If(f[5] = "Sector Exposure", <<W(<<"self.SetRiskManagement(MaximumSectorExposureRiskManagementModel())">>)>>)

Universe_args_unscoped(f) ==
    If(f[2] = "Large Cap Equities", <<W(<<"self.SetUniverseSelection(QC500UniverseSelectionModel())">>)>>)
    \o If(f[2] = "EMA Cross Universe", <<W(<<"fastPeriod = 10">>),
            W(<<"slowPeriod = 30">>),
            W(<<"count = 10">>),
            W(<<"self.SetUniverseSelection(EmaCrossUniverseSelectionModel(fastPeriod, slowPeriod, count))">>)>>)
    \o If(f[2] = "Coarse Universe", <<W(<<"self.SetUniverseSelection(CoarseFundamentalUniverseSelectionModel(self.CoarseSelectionFunction))">>)>>)
    \o If(f[2] = "Coarse-Fine Universe", <<W(<<"self.__numberOfSymbols = 100">>),
            W(<<"self.__numberOfSymbolsFine = 5">>),
            W(<<"self.SetUniverseSelection(FineFundamentalUniverseSelectionModel(self.CoarseSelectionFunction, self.FineSelectionFunction, None, None))">>)>>)
    \o If(f[2] = "Scheduled Universe", <<W(<<"# selection will run on mon/tues/thurs at 00:00/06:00/12:00/18:00">>),
            W(<<"self.SetUniverseSelection(ScheduledUniverseSelectionModel(">>),
            W(ScheduledArgs[1]),
            W(ScheduledArgs[2]),
            W(ScheduledArgs[3]),
            W(<<"))">>)>>)
    \o If(f[2] = "Manual Selection", <<W(<<"symbols = [ Symbol.Create(\"SPY\", SecurityType.Equity, Market.USA) ]">>),
            W(<<"self.SetUniverseSelection( ManualUniverseSelectionModel(symbols) )">>)>>)
Universe(f) ==
    If(f[2] = "Large Cap Equities", <<W(<<"self.SetUniverseSelection(QC500UniverseSelectionModel())">>)>>)
    \o If(f[2] = "EMA Cross Universe", <<W(<<"fastPeriod = 10">>),
            W(<<"slowPeriod = 30">>),
            W(<<"count = 10">>),
            W(<<"self.SetUniverseSelection(EmaCrossUniverseSelectionModel(fastPeriod, slowPeriod, count))">>)>>)
    \o If(f[2] = "Coarse Universe", <<W(<<"self.SetUniverseSelection(CoarseFundamentalUniverseSelectionModel(self.CoarseSelectionFunction))">>)>>)
    \o If(f[2] = "Coarse-Fine Universe", <<W(<<"self.__numberOfSymbols = 100">>),
            W(<<"self.__numberOfSymbolsFine = 5">>),
            W(<<"self.SetUniverseSelection(FineFundamentalUniverseSelectionModel(self.CoarseSelectionFunction, self.FineSelectionFunction, None, None))">>)>>)
    \o If(f[2] = "Scheduled Universe", <<W(<<"# selection will run on mon/tues/thurs at 00:00/06:00/12:00/18:00">>),
            W(<<"self.SetUniverseSelection(ScheduledUniverseSelectionModel(">>),
            ENTER,
            W(ScheduledArgs[1]),
            W(ScheduledArgs[2]),
            W(ScheduledArgs[3]),
            EXIT,
            W(<<"))">>)>>)
    \o If(f[2] = "Manual Selection", <<W(<<"symbols = [ Symbol.Create(\"SPY\", SecurityType.Equity, Market.USA) ]">>),
            W(<<"self.SetUniverseSelection( ManualUniverseSelectionModel(symbols) )">>)>>)

\* the body of `for klass in klasses`
ForKlass(klass, f) ==
    <<W(ClassHeader(klass)), W(<<>>),
      ENTER, W(InitializeHeader),
      ENTER,
      W(<<"self.SetStartDate(">> \o f[6] \o <<") # Set Start Date">>),
      W(<<"self.SetCash(">> \o f[7] \o <<") # Set Strategy Cash">>),
      W(<<"#self.AddEquity(\"SPY\", Resolution.Minute)">>),
      W(<<>>)>>
    \o Alpha(f) \o <<W(<<>>)>>
    \o Execution(f) \o <<W(<<>>)>>
    \o Portfolio(f) \o <<W(<<>>)>>
    \o Risk(f) \o <<W(<<>>)>>
    \o Universe(f) \o <<W(<<>>), W(<<>>)>>
    \o <<EXIT, EXIT,
         ENTER, W(OnDataHeader),
         ENTER, W(<<"# if not self.Portfolio.Invested:">>),
         W(<<"#    self.SetHoldings(\"SPY\", 1)">>),
         EXIT, EXIT>>

RECURSIVE ForKlasses(_, _)
ForKlasses(ks, f) ==
    IF ks = <<>> THEN <<>> ELSE ForKlass(Head(ks), f) \o ForKlasses(Tail(ks), f)

\* the whole generation pass, up to `source = sb.end()`
Program(f) == ForKlasses(klasses, f) \o <<END>>

\* sb = SourceBuilder(), after the wizard has been answered
InitGen ==
    /\ out = <<>>
    /\ closed = FALSE
    /\ level = 0
    /\ indent_with = INDENT
    /\ stack = <<>>
    /\ exc = "none"
    /\ last = Did("init")
    /\ ended = <<>>
    /\ since = <<>>
    /\ phase = 0
    /\ factors \in Answers
    /\ pc = 0

Done == pc = Len(Program(factors))
\* the call the driver makes next
Instr == Program(factors)[pc + 1]
Step(op) ==
    /\ ~Done /\ Instr.op = op
    /\ pc' = pc + 1
    /\ UNCHANGED factors

GWriteln ==
    /\ Step("writeln")
    /\ WritelnOp({Instr.text}, MaxSource)
    /\ UNCHANGED <<ended, since, phase>>
GEnter ==
    /\ Step("enter")
    /\ EnterScope
    /\ UNCHANGED <<ended, since, phase>>
GExit ==
    /\ Step("exit")
    /\ ExitOp
    /\ UNCHANGED <<ended, since, phase>>
GEnd ==
    /\ Step("end")
    /\ EndOp
    /\ ended' = <<last'.ret>>
    /\ phase' = phase + 1
    /\ UNCHANGED since

NextGen ==
    \/ GWriteln
    \/ GEnter
    \/ GExit
    \/ GEnd

SpecGen == InitGen /\ [][NextGen]_vars

\* ------------------------------------------------------------- properties
\* last'.op names the call a step made; the unprimed variables are the state
\* the call was made in.
ScopeExit(c) == c.op \in {"exit", "unwind"} /\ c.frame.kind = "with"
ManualExit(c) == c.op = "dedent" /\ c.frame.kind = "manual"

\* C1 (Spec): balance. When a scope whose body only wrote text and ran
\* properly nested scopes (frame.clean) is left -- a with/block scope by
\* normal completion or by an exception passing through it, a manual scope by
\* its matching dedent() -- the level is again what it was when the scope was
\* entered, and an exception passing through is still the same exception.
C1_Balance ==
    [][ ((ScopeExit(last') \/ ManualExit(last')) /\ last'.frame.clean)
            => (level' = last'.frame.base /\ exc' = exc) ]_vars

\* An error raised in the body of a scope nested in another one has just left
\* the inner scope; text was written before it.
C1_Witness ==
    /\ last.op = "unwind" /\ last.frame.clean /\ last.frame.kind = "with"
    /\ exc = "BodyError"
    /\ Len(stack) = 1 /\ stack[1].clean /\ stack[1].kind = "with"
    /\ level = 1 /\ out # <<>>

\* C2 (Spec), as claimed: dedent() at level 0 fails with DedentException and
\* leaves level and buffer alone; above 0 it succeeds and lowers the level
\* by exactly one.
C2_DedentUnderflow ==
    [][ last'.op = "dedent"
            => IF level = 0
               THEN exc' = "DedentException" /\ level' = 0 /\ out' = out
               ELSE exc' = "none" /\ level' = level - 1 ]_vars

\* C3 (Spec), as claimed: leaving a with/block scope lowers the level by
\* exactly one on every exit path and from every state, and the release
\* itself never fails (the exception in flight, if any, is unchanged).
C3_ExitAlwaysDecrements ==
    [][ ScopeExit(last') => (level' = level - 1 /\ exc' = exc) ]_vars

\* C3 (Spec), amended: leaving a with/block scope at a level above 0 lowers
\* the level by exactly one and does not fail; at level 0 (the body called
\* end(), truncate(), reset() or a stray dedent()) the release fails with the
\* error of dedent(), which replaces any exception in flight, and the level
\* stays 0.
C3_ExitDecrementsAboveZero ==
    [][ ScopeExit(last')
            => IF level > 0
               THEN level' = level - 1 /\ exc' = exc
               ELSE level' = 0 /\ exc' = DedentError ]_vars

\* A with/block scope was left normally at level 0 and the release failed.
C3_Witness ==
    /\ last.op = "exit" /\ last.frame.kind = "with"
    /\ exc = DedentError /\ level = 0

\* C4 (Spec): the level is an integer >= 0 in every reachable state.
C4_DepthNonNegative == level \in Nat

\* A dedent() at level 0 has just failed.
C4_Witness == last.op = "dedent" /\ exc # "none" /\ level = 0 /\ Len(stack) > 0

\* C7 (Spec): truncate() and close() leave the builder as __init__ does --
\* empty open buffer, level 0 -- and an end() that follows immediately
\* returns the empty string.
C7_TruncateIsInit ==
    [][ /\ last'.op \in {"truncate", "close"}
            => (out' = <<>> /\ level' = 0 /\ closed' = FALSE
                /\ indent_with' = INDENT)
        /\ (last.op \in {"truncate", "close"} /\ last'.op = "end")
            => last'.ret = <<>> ]_vars

\* close() was called inside two open scopes.
C7_Witness == last.op = "close" /\ Len(stack) = 2 /\ out = <<>> /\ level = 0

\* C5 (SpecText): writeln(text) with a non-empty text appends the indent
\* unit repeated level times, the text and one newline; writeln() with an
\* empty text appends one newline and nothing else; write(text) appends the
\* indent prefix and the text.
C5_WriteAppends ==
    [][ /\ last'.op = "writeln"
            => out' = out \o (IF last'.text # <<>>
                              THEN Rep(indent_with, level) \o last'.text
                              ELSE <<>>) \o <<NL>>
        /\ last'.op = "write"
            => out' = out \o Rep(indent_with, level) \o last'.text ]_vars

\* A blank line was written at level 2 right after an indented line.
C5_Witness ==
    /\ last.op = "writeln" /\ last.text = <<>> /\ level = 2
    /\ out = Rep(INDENT, 2) \o Return1 \o <<NL, NL>>

\* C6 (SpecText): end() returns everything written since construction or the
\* last truncate, which is what the previous end() returned followed by what
\* was written since; it leaves the buffer as it is and sets the level to 0.
C6_EndReturnsAll ==
    [][ last'.op = "end"
            => /\ last'.ret = (IF ended = <<>> THEN <<>> ELSE ended[1]) \o since
               /\ out' = out
               /\ level' = 0 ]_vars

\* write, end(), write, end(): the second end() returned both texts.
C6_Witness ==
    /\ last.op = "end"
    /\ last.text = Return1
    /\ last.ret = Return1 \o Return1

\* C8 (SpecText): block(header, n) at level d appends n newlines, then the
\* header indented at level d and a newline, and then the level is d + 1; a
\* line the body writes next is indented at level d + 1; the end-to-end
\* scenario returns "\ndefine:\n    return 1\n".
ScenarioText == <<NL>> \o Define \o <<NL>> \o INDENT \o Return1 \o <<NL>>
C8_BlockHeaderThenIndent ==
    [][ /\ last'.op = "block"
            => /\ out' = out \o Rep(<<NL>>, last'.n) \o Rep(indent_with, level)
                             \o last'.text \o <<NL>>
               /\ level' = level + 1
        /\ (last.op = "block" /\ last'.op \in {"write", "writeln"}
                /\ last'.text # <<>>)
            => Appended = Rep(indent_with, Top.base + 1) \o last'.text
                            \o (IF last'.op = "writeln" THEN <<NL>> ELSE <<>>)
        /\ phase' = Len(Scenario) => last'.ret = ScenarioText ]_vars

\* The scenario ran to its end().
C8_Witness == phase = Len(Scenario) /\ last.op = "end" /\ out = ScenarioText

\* ---- docstring under SpecDoc: the call is recorded in last, what it
\* appended in since; it leaves the level as it was
DocLines == splitlines(strip(textwrap_dedent(last.text)))  \* normalized text
DocPrefix == Rep(indent_with, level)
DocMaxWidth == last.n - Len(DocPrefix)
\* the lines the call appended
Emitted == splitlines(since)

OneLineRule(lines, max_width, delimiter) ==
    /\ Len(lines) = 1
    /\ 2 * Len(delimiter) + Len(lines[1]) < max_width

\* the content lines of the multi-line form: a blank line for a blank line
\* of the text, the wrapped segments of any other, each behind the prefix
RECURSIVE ContentLines(_, _, _)
ContentLines(lines, prefix, max_width) ==
    IF lines = <<>> THEN <<>>
    ELSE (IF IsBlank(Head(lines)) THEN << <<>> >>
          ELSE LET w == textwrap_wrap(Head(lines), max_width)
               IN  [i \in 1..Len(w) |-> prefix \o w[i]])
         \o ContentLines(Tail(lines), prefix, max_width)

OneLineForm(lines, prefix, delimiter, emitted, e) ==
    /\ e = "none"
    /\ emitted = <<prefix \o delimiter \o lines[1] \o delimiter>>
MultiLineForm(lines, max_width, prefix, delimiter, emitted, e) ==
    /\ e = "none"
    /\ Len(emitted) >= 3
    /\ emitted[1] = prefix \o delimiter
    /\ SubSeq(emitted, 2, Len(emitted) - 2) = ContentLines(lines, prefix, max_width)
    /\ emitted[Len(emitted) - 1] = <<>>
    /\ emitted[Len(emitted)] = prefix \o delimiter

FormRule(lines, max_width, prefix, delimiter, emitted, e) ==
    IF OneLineRule(lines, max_width, delimiter)
    THEN OneLineForm(lines, prefix, delimiter, emitted, e)
    ELSE MultiLineForm(lines, max_width, prefix, delimiter, emitted, e)

FormRuleWidthPositive(lines, max_width, prefix, delimiter, emitted, e) ==
    IF max_width <= 0 /\ lines # <<>>
    THEN e = "ValueError" /\ emitted = <<prefix \o delimiter>>
    ELSE FormRule(lines, max_width, prefix, delimiter, emitted, e)

\* C9 (SpecDoc), as claimed: the one-line form exactly when the normalized
\* text is one line and 2 * len(delimiter) + len(line) < max_width, the
\* multi-line form (delimiter, content lines, a blank line, delimiter) in
\* every other case.
C9_FormRule ==
    last.op = "docstring"
        => FormRule(DocLines, DocMaxWidth, DocPrefix, last.delim, Emitted, exc)

\* C9 (SpecDoc), amended: as claimed whenever max_width >= 1 or the
\* normalized text is empty; when max_width <= 0 and the text is not empty
\* the call writes the opening delimiter line and fails with the ValueError
\* of textwrap.wrap. The documented example comes out on one line.
C9_FormRuleWidthPositive ==
    last.op = "docstring"
        => /\ FormRuleWidthPositive(DocLines, DocMaxWidth, DocPrefix,
                                    last.delim, Emitted, exc)
           /\ (last.text = HelloWorld /\ last.delim = Rep(<<"#">>, 3)
                 /\ last.n = DOCSTRING_WIDTH /\ level = 0)
                => since = Rep(<<"#">>, 3) \o HelloWorld
                             \o Rep(<<"#">>, 3) \o <<NL>>

\* Two paragraphs around a blank line came out in the multi-line form at
\* level 1.
C9_Witness ==
    /\ last.op = "docstring" /\ exc = "none"
    /\ last.text = <<"a", NL, NL, "a">> /\ last.delim = <<"#">> /\ last.n = 7
    /\ level = 1
    /\ out = INDENT \o <<"#", NL>> \o INDENT \o <<"a", NL>> \o <<NL>>
               \o INDENT \o <<"a", NL>> \o <<NL>> \o INDENT \o <<"#", NL>>

\* the words of a list of lines, in order
RECURSIVE Words(_)
Words(lines) ==
    IF lines = <<>> THEN <<>>
    ELSE SelectSeq(Chunks(Head(lines), <<>>, <<>>), LAMBDA c : ~IsBlank(c))
         \o Words(Tail(lines))

\* the content lines of an emitted multi-line form: those between the
\* opening delimiter line and the closing blank line
Content(emitted) == SubSeq(emitted, 2, Len(emitted) - 2)
\* its segments: the non-blank content lines without the indent prefix
Segments(content, prefix) ==
    LET mid == SelectSeq(content, LAMBDA l : l # <<>>)
    IN  [i \in 1..Len(mid) |-> SubSeq(mid[i], Len(prefix) + 1, Len(mid[i]))]
WithinWidth(content, segments, width, max_width) ==
    /\ \A i \in 1..Len(content) : Len(content[i]) <= width
    /\ \A i \in 1..Len(segments) : Len(segments[i]) <= max_width

\* ws are the words ins, except that a word longer than width may have been
\* cut into consecutive pieces
RECURSIVE CutOnlyLong(_, _, _)
CutOnlyLong(ins, ws, width) ==
    IF ins = <<>> THEN ws = <<>>
    ELSE IF Len(Head(ins)) <= width
         THEN ws # <<>> /\ Head(ws) = Head(ins)
              /\ CutOnlyLong(Tail(ins), Tail(ws), width)
         ELSE \E k \in 1..Len(ws) :
                /\ Flatten(SubSeq(ws, 1, k)) = Head(ins)
                /\ CutOnlyLong(Tail(ins), SubSeq(ws, k + 1, Len(ws)), width)

NoSplit(lines, content, segments, width, max_width) ==
    /\ WithinWidth(content, segments, width, max_width)
    /\ Words(segments) = Words(lines)
CutsOnlyLongWords(lines, content, segments, width, max_width) ==
    /\ WithinWidth(content, segments, width, max_width)
    /\ CutOnlyLong(Words(lines), Words(segments), max_width)

\* a docstring call has emitted the multi-line form
EmittedMultiLine ==
    /\ last.op = "docstring" /\ exc = "none"
    /\ ~OneLineRule(DocLines, DocMaxWidth, last.delim)

C11_WritersNeverRaise ==
    /\ [][ last'.op \in {"write", "writeln", "end", "truncate", "close"}
              => exc' = "none" ]_vars
    /\ [](closed = FALSE)
    /\ [](Idle => ENABLED EEnd /\ ENABLED ETruncate /\ ENABLED EClose)

\* A line was written after an error had been raised with text in the buffer
\* and truncate() or close() had followed it.
C11_Witness ==
    /\ last.op = "writeln" /\ phase = 2 /\ exc = "none"
    /\ out = <<NL>> /\ closed = FALSE

\* C12 (Spec): reset() sets the level to 0 from whatever level it is called
\* at and does not fail; so do the resets that end(), truncate() and close()
\* perform.
C12_ResetToZero ==
    [][ last'.op \in {"reset", "end", "truncate", "close"}
            => (level' = 0 /\ exc' = "none") ]_vars

\* reset() was called inside two open scopes.
C12_Witness ==
    /\ last.op = "reset" /\ level = 0 /\ exc = "none"
    /\ Len(stack) = 2 /\ stack[1].kind = "with" /\ stack[2].kind = "manual"

IsPrefix(a, b) == Len(a) <= Len(b) /\ SubSeq(b, 1, Len(a)) = a

\* C13 (SpecErr): the buffer is append-only between truncates. Every call
\* other than truncate() and close() -- one that fails and every step of an
\* exception leaving the open scopes included -- leaves the buffer it found
\* as a prefix of the buffer it leaves, and end() returns the whole buffer;
\* so the text written before an error is in what a later end() returns.
C13_AppendOnly ==
    [][ /\ last'.op \notin {"truncate", "close"} => IsPrefix(out, out')
        /\ exc' # "none" => IsPrefix(out, out')
        /\ last'.op = "end" => (last'.ret = out /\ out' = out) ]_vars

\* An error was raised while the buffer held text, nothing was truncated
\* since, and end() returned the line written inside the scope.
C13_Witness ==
    /\ last.op = "end" /\ phase = 1 /\ exc = "none"
    /\ last.ret = INDENT \o <<"a">> /\ out = last.ret
    /\ stack = <<>> /\ level = 0

\* C14 (SpecErr): frame conditions. write, writeln and a docstring call that
\* completes leave the level as it was; indent, dedent (successful or
\* failing), reset, the rendering of the indent prefix (which returns the
\* indent unit repeated level times), scope entry and scope exit on either
\* path leave the buffer as it was; and when a block whose body only wrote
\* text completes, the level is what it was before the block was called.
C14_Frame ==
    [][ /\ (last'.op \in {"write", "writeln"}
               \/ (last'.op = "docstring" /\ exc' = "none"))
            => level' = level
        /\ last'.op \in {"indent", "dedent", "reset", "render", "enter",
                          "exit", "unwind"}
            => (out' = out /\ closed' = closed)
        /\ last'.op = "render"
            => (last'.ret = Rep(indent_with, level)
                /\ level' = level /\ stack' = stack /\ exc' = exc)
        /\ last'.op = "block" => (level' = level + 1 /\ Top'.base = level)
        /\ (last'.op = "exit" /\ last'.frame.clean)
            => (level' = last'.frame.base /\ exc' = "none") ]_vars

\* block("h") was called on a fresh builder, its body wrote a blank line and
\* the block completed.
C14_Witness ==
    /\ last.op = "exit" /\ last.frame.clean /\ last.frame.base = 0
    /\ level = 0 /\ exc = "none" /\ phase = 0
    /\ stack = <<>> /\ out = <<"h", NL, NL>>

\* the level the generated program needs each kind of line at
ClassHeaders == {ClassHeader(klasses[i]) : i \in 1..Len(klasses)}
MethodHeaders == {InitializeHeader, OnDataHeader}
ArgumentLines == {ScheduledArgs[i] : i \in 1..Len(ScheduledArgs)}
LineDepth(text) ==
    IF text \in ClassHeaders THEN 0
    ELSE IF text \in MethodHeaders THEN 1
    ELSE IF text \in ArgumentLines THEN 3
    ELSE 2

\* C15 (SpecGen): for every set of answers the generation pass raises no
\* error (no dedent below 0 in particular), keeps the level within 0..3,
\* runs to its end, calls end() once, as its last call and at level 0, and
\* writes the class header at level 0, the two method headers at level 1,
\* the three lines of the scheduled-universe argument list at level 3 and
\* every other non-blank line at level 2.
C15_DriverDepths ==
    /\ [](exc = "none")
    /\ [](level \in 0..3)
    /\ [](phase <= 1 /\ (Done => (phase = 1 /\ last.op = "end")))
    /\ [](~Done => ENABLED NextGen)
    /\ [][ /\ last'.op = "end" => (level = 0 /\ stack = <<>> /\ Done')
           /\ (last'.op = "writeln" /\ last'.text # <<>>)
               => level = LineDepth(last'.text) ]_vars

\* The pass for "Scheduled Universe" and no alpha has ended; the last
\* argument line stands behind three indent units.
C15_Witness ==
    /\ Done /\ last.op = "end" /\ phase = 1 /\ level = 0
    /\ factors[1] = "None" /\ factors[2] = "Scheduled Universe"
    /\ ended = <<out>>
    /\ \E i \in 14..Len(out) :
         /\ out[i] = "self.SelectSymbols"
         /\ SubSeq(out, i - 12, i - 1) = Rep(INDENT, 3)
         /\ out[i - 13] = NL

====
